---- MODULE Spec2Model ----
(***************************************************************************)
(* Model of the data manipulation functions of app.py (CannaCount): the    *)
(* three session collections products, bins and counts, and the five       *)
(* functions add_product, add_bin, assign_product_to_bin,                  *)
(* create_inventory_count and update_inventory_count.                      *)
(*                                                                         *)
(* Descriptive fields that no data function ever reads (sku, name,         *)
(* category, strain, unitType, thcContent, cbdContent of a product; code,  *)
(* location, capacity of a bin) are left out of the records.               *)
(***************************************************************************)
EXTENDS Integers, Sequences, FiniteSets, TLC

\* ---------------------------------------------------------------- bounds
\* Products, bins and counts a session creates at most.
MaxProducts == 2
MaxBins == 2
MaxCounts == 2
\* Longest products list of a bin (same-bin reassignment grows it without end).
MaxBinLen == 2
\* Largest actual count passed to update_inventory_count; the smallest is -1.
MaxActual == 1
\* Latest reading of the clock.
MaxTime == 1
\* Cap on the number of products plus counts of a session.
MaxRecords == 3
\* assign_product_to_bin calls a thread makes in a run without mutual exclusion.
MaxCallsPerThread == 1

\* products, bins, counts: the three lists of st.session_state.
\* error: the message the last call passed to st.error, NoError if none.
\* threads: for each thread that runs assign_product_to_bin without mutual
\*   exclusion, the line it is at and its local variables.
\* overlapped: some call began while a call of another thread was under way.
VARIABLES products, bins, counts, error, threads, overlapped

vars == <<products, bins, counts, error, threads, overlapped>>

\* The variables that only runs without mutual exclusion change.
raceVars == <<threads, overlapped>>

\* ---------------------------------------------------------------- values
\* Python None.
None == <<"None", 0>>

\* The empty string: like None it is falsy in `if new_bin_id:`.
EmptyStr == <<"str", 0>>

\* An id that no uuid4() call of the session returns.
UnknownId == <<"unknown", 0>>

\* uuid.uuid4().hex: the n-th id generated for a kind of record; fresh.
uuid4(kind, n) == <<kind, n>>

\* Python truthiness of an id argument (None and "" are falsy).
Truthy(x) == x \notin {None, EmptyStr}

\* st.error messages; NoError when the function reports no error.
NoError == "none"
ProductNotFound == "Product not found."
BinNotFound == "Bin not found."
NoPendingCount == "No pending inventory count for this bin. Please start a count first."

\* datetime.now(): a reading of the wall clock.
Times == 0..MaxTime

\* The actual counts a caller may pass (negative values included).
ActualValues == (-1)..MaxActual

\* ---------------------------------------------------------------- helpers
\* next((x for x in seq if x["id"] == id), None): index of the first record
\* with that id, 0 standing for None.
Find(seq, id) ==
  IF \E i \in DOMAIN seq : seq[i].id = id
  THEN CHOOSE i \in DOMAIN seq : seq[i].id = id /\ \A j \in 1..(i-1) : seq[j].id # id
  ELSE 0

\* x in list
Contains(list, x) == \E i \in DOMAIN list : list[i] = x

\* list.remove(x): removes the first occurrence of x (x is in list).
ListRemove(list, x) ==
  LET k == CHOOSE i \in DOMAIN list : list[i] = x /\ \A j \in 1..(i-1) : list[j] # x
  IN  SubSeq(list, 1, k-1) \o SubSeq(list, k+1, Len(list))

\* list.count(x)
Occurrences(list, x) == Cardinality({i \in DOMAIN list : list[i] = x})

Max(a, b) == IF a >= b THEN a ELSE b

\* ---------------------------------------------------------------- functions
\* Variant of add_product: a new product is given the first bin as its
\* currentBin.
add_product_DefaultBin(ps) ==
  Append(ps, [id |-> uuid4("product", Len(ps) + 1),
              currentBin |-> IF bins # <<>> THEN bins[1].id ELSE None])

\* add_product: the list of products after the call.
add_product(ps) ==
  Append(ps, [id |-> uuid4("product", Len(ps) + 1), currentBin |-> None])

\* add_bin: the list of bins after the call.
add_bin(bs) ==
  Append(bs, [id |-> uuid4("bin", Len(bs) + 1), currentCount |-> 0, products |-> <<>>])

\* Variant of RemoveFromOldBin: every occurrence of the product is filtered out
\* of the old bin while currentCount is decremented once.
RemoveFromOldBin_FilterAll(bs, old_bin_id, product_id, new_bin_id) ==
  IF Truthy(old_bin_id) /\ old_bin_id # new_bin_id
  THEN LET ob == Find(bs, old_bin_id) IN
       IF ob # 0 /\ Contains(bs[ob].products, product_id)
       THEN [bs EXCEPT ![ob].products = SelectSeq(@, LAMBDA x : x # product_id),
                       ![ob].currentCount = Max(0, @ - 1)]
       ELSE bs
  ELSE bs

\* Variant of RemoveFromOldBin: the last entry of the old bin's list is popped
\* instead of the product's.
RemoveFromOldBin_PopLast(bs, old_bin_id, product_id, new_bin_id) ==
  IF Truthy(old_bin_id) /\ old_bin_id # new_bin_id
  THEN LET ob == Find(bs, old_bin_id) IN
       IF ob # 0 /\ Contains(bs[ob].products, product_id)
       THEN [bs EXCEPT ![ob].products = SubSeq(@, 1, Len(@) - 1),
                       ![ob].currentCount = Max(0, @ - 1)]
       ELSE bs
  ELSE bs

\* assign_product_to_bin, lines 60-65: take the product out of its old bin.
RemoveFromOldBin(bs, old_bin_id, product_id, new_bin_id) ==
  IF Truthy(old_bin_id) /\ old_bin_id # new_bin_id
  THEN LET ob == Find(bs, old_bin_id) IN
       IF ob # 0 /\ Contains(bs[ob].products, product_id)
       THEN [bs EXCEPT ![ob].products = ListRemove(@, product_id),
                       ![ob].currentCount = Max(0, @ - 1)]
       ELSE bs
  ELSE bs

\* Variant of AddToNewBin: the product is appended and currentCount is left
\* as it was.
AddToNewBin_NoIncrement(bs, product_id, new_bin_id) ==
  IF Truthy(new_bin_id)
  THEN LET nb == Find(bs, new_bin_id) IN
       IF nb # 0
       THEN [bs EXCEPT ![nb].products = Append(@, product_id)]
       ELSE bs
  ELSE bs

\* assign_product_to_bin, lines 67-71: put the product into the new bin.
AddToNewBin(bs, product_id, new_bin_id) ==
  IF Truthy(new_bin_id)
  THEN LET nb == Find(bs, new_bin_id) IN
       IF nb # 0
       THEN [bs EXCEPT ![nb].products = Append(@, product_id),
                       ![nb].currentCount = @ + 1]
       ELSE bs
  ELSE bs

\* assign_product_to_bin, lines 72-74: the product's new currentBin.
NewCurrentBin(new_bin_id) == IF Truthy(new_bin_id) THEN new_bin_id ELSE None

\* Variant of assign_product_to_bin: the target bin is updated before the
\* product lookup is tested.
assign_product_to_bin_LateCheck(ps, bs, product_id, new_bin_id) ==
  LET pi == Find(ps, product_id) IN
  IF pi = 0
  THEN [products |-> ps, bins |-> AddToNewBin(bs, product_id, new_bin_id),
        error |-> ProductNotFound]
  ELSE LET old_bin_id == ps[pi].currentBin
           bs1 == RemoveFromOldBin(bs, old_bin_id, product_id, new_bin_id)
           bs2 == AddToNewBin(bs1, product_id, new_bin_id)
       IN  [products |-> [ps EXCEPT ![pi].currentBin = NewCurrentBin(new_bin_id)],
            bins |-> bs2, error |-> NoError]

\* assign_product_to_bin: products, bins and reported error after the call.
assign_product_to_bin(ps, bs, product_id, new_bin_id) ==
  LET pi == Find(ps, product_id) IN
  IF pi = 0
  THEN [products |-> ps, bins |-> bs, error |-> ProductNotFound]
  ELSE LET old_bin_id == ps[pi].currentBin
           bs1 == RemoveFromOldBin(bs, old_bin_id, product_id, new_bin_id)
           bs2 == AddToNewBin(bs1, product_id, new_bin_id)
       IN  [products |-> [ps EXCEPT ![pi].currentBin = NewCurrentBin(new_bin_id)],
            bins |-> bs2, error |-> NoError]

\* create_inventory_count, lines 85-92: the new count record.
NewCount(cs, bin_obj, bin_id, now) ==
  [id |-> uuid4("count", Len(cs) + 1), binId |-> bin_id,
   expectedCount |-> bin_obj.currentCount, actualCount |-> 0,
   status |-> "pending", timestamp |-> now]

\* Variant of create_inventory_count: no record is appended while the bin
\* still has a pending count.
create_inventory_count_Dedup(cs, bs, bin_id, now) ==
  LET bi == Find(bs, bin_id) IN
  IF bi = 0
  THEN [counts |-> cs, error |-> BinNotFound]
  ELSE IF \E i \in DOMAIN cs : cs[i].binId = bin_id /\ cs[i].status = "pending"
       THEN [counts |-> cs, error |-> NoError]
       ELSE [counts |-> Append(cs, NewCount(cs, bs[bi], bin_id, now)), error |-> NoError]

\* Variant of create_inventory_count: the record is appended before the bin
\* lookup is tested, with expectedCount 0 when there is no bin.
create_inventory_count_LateTest(cs, bs, bin_id, now) ==
  LET bi == Find(bs, bin_id) IN
  IF bi = 0
  THEN [counts |-> Append(cs, NewCount(cs, [currentCount |-> 0], bin_id, now)),
        error |-> BinNotFound]
  ELSE [counts |-> Append(cs, NewCount(cs, bs[bi], bin_id, now)), error |-> NoError]

\* create_inventory_count: counts and reported error after the call.
create_inventory_count(cs, bs, bin_id, now) ==
  LET bi == Find(bs, bin_id) IN
  IF bi = 0
  THEN [counts |-> cs, error |-> BinNotFound]
  ELSE [counts |-> Append(cs, NewCount(cs, bs[bi], bin_id, now)), error |-> NoError]

\* Variant of pending_counts: the status test is dropped.
pending_counts_AnyStatus(cs, bin_id) ==
  {i \in DOMAIN cs : cs[i].binId = bin_id}

\* Variant of pending_counts: the binId test is dropped.
pending_counts_AnyBin(cs, bin_id) ==
  {i \in DOMAIN cs : cs[i].status = "pending"}

\* update_inventory_count, line 100: positions of the pending counts of bin_id.
pending_counts(cs, bin_id) ==
  {i \in DOMAIN cs : cs[i].binId = bin_id /\ cs[i].status = "pending"}

\* Variant of LastOf: pending_counts[0], the first of them in list order.
LastOf_First(S) == CHOOSE i \in S : \A j \in S : i <= j

\* Variant of LastOf: the one with the latest timestamp, the first such in
\* list order.
LastOf_ByTimestamp(S) ==
  CHOOSE i \in S :
    /\ \A j \in S : counts[j].timestamp <= counts[i].timestamp
    /\ \A j \in S : counts[j].timestamp = counts[i].timestamp => i <= j

\* pending_counts[-1]: the last of them in list order.
LastOf(S) == CHOOSE i \in S : \A j \in S : j <= i

\* Variant of ResolvedStatus: an actual count above the expected one also
\* completes the count.
ResolvedStatus_AtLeast(actual_count, expectedCount) ==
  IF actual_count >= expectedCount THEN "completed" ELSE "discrepancy"

\* update_inventory_count, lines 106-109: the status of the resolved count.
ResolvedStatus(actual_count, expectedCount) ==
  IF actual_count = expectedCount THEN "completed" ELSE "discrepancy"

\* Variant of update_inventory_count: the actual count is compared with the
\* bin's currentCount of the moment instead of the stored expectedCount.
update_inventory_count_LiveCount(cs, bin_id, actual_count) ==
  LET pc == pending_counts(cs, bin_id) IN
  IF pc = {}
  THEN [counts |-> cs, error |-> NoPendingCount]
  ELSE LET k == LastOf(pc)
           bi == Find(bins, bin_id)
       IN
       [counts |-> [cs EXCEPT ![k].actualCount = actual_count,
                             ![k].status = ResolvedStatus(actual_count, bins[bi].currentCount)],
        error |-> NoError]

\* update_inventory_count: counts and reported error after the call.
update_inventory_count(cs, bin_id, actual_count) ==
  LET pc == pending_counts(cs, bin_id) IN
  IF pc = {}
  THEN [counts |-> cs, error |-> NoPendingCount]
  ELSE LET k == LastOf(pc) IN
       [counts |-> [cs EXCEPT ![k].actualCount = actual_count,
                             ![k].status = ResolvedStatus(actual_count, cs[k].expectedCount)],
        error |-> NoError]

\* ---------------------------------------------------------------- state machine
\* Ids of the records in a collection.
Ids(seq) == {seq[i].id : i \in DOMAIN seq}

\* Arguments a caller may pass for a product id / a bin id.
ProductArgs == Ids(products) \cup {UnknownId}
BinArgs == Ids(bins) \cup {UnknownId}

\* The threads of a run without mutual exclusion.
Threads == {1, 2}

\* A thread that is in no call: no line, no locals, calls made so far.
Idle(n) ==
  [pc |-> "idle", product_id |-> None, new_bin_id |-> None, old_bin_id |-> None,
   tmp |-> 0, calls |-> n]

\* init_session_state
Init ==
  /\ products = <<>>
  /\ bins = <<>>
  /\ counts = <<>>
  /\ error = NoError
  /\ threads = [t \in Threads |-> Idle(0)]
  /\ overlapped = FALSE

AddProduct ==
  /\ Len(products) < MaxProducts
  /\ Len(products) + Len(counts) < MaxRecords
  /\ products' = add_product(products)
  /\ error' = NoError
  /\ UNCHANGED <<bins, counts>>
  /\ UNCHANGED raceVars

AddBin ==
  /\ Len(bins) < MaxBins
  /\ bins' = add_bin(bins)
  /\ error' = NoError
  /\ UNCHANGED <<products, counts>>
  /\ UNCHANGED raceVars

\* Variant of AssignAt: the pending counts of the bins are brought up to the
\* bins' new currentCount.
AssignAt_SyncCounts(p, b) ==
  LET r == assign_product_to_bin(products, bins, p, b) IN
  /\ \A i \in DOMAIN r.bins : Len(r.bins[i].products) <= MaxBinLen
  /\ products' = r.products
  /\ bins' = r.bins
  /\ error' = r.error
  /\ counts' = [i \in DOMAIN counts |->
                  IF counts[i].status = "pending"
                  THEN [counts[i] EXCEPT !.expectedCount =
                          r.bins[Find(r.bins, counts[i].binId)].currentCount]
                  ELSE counts[i]]
  /\ UNCHANGED raceVars

\* A caller runs assign_product_to_bin(p, b).
AssignAt(p, b) ==
  LET r == assign_product_to_bin(products, bins, p, b) IN
  /\ \A i \in DOMAIN r.bins : Len(r.bins[i].products) <= MaxBinLen
  /\ products' = r.products
  /\ bins' = r.bins
  /\ error' = r.error
  /\ UNCHANGED counts
  /\ UNCHANGED raceVars

Assign == \E p \in ProductArgs, b \in BinArgs \cup {None, EmptyStr} : AssignAt(p, b)

\* A caller runs create_inventory_count(b) while the clock reads now.
CreateCountAt(b, now) ==
  LET r == create_inventory_count(counts, bins, b, now) IN
  /\ Len(r.counts) <= MaxCounts
  /\ Len(products) + Len(r.counts) <= MaxRecords
  /\ counts' = r.counts
  /\ error' = r.error
  /\ UNCHANGED <<products, bins>>
  /\ UNCHANGED raceVars

CreateCount == \E b \in BinArgs, now \in Times : CreateCountAt(b, now)

\* A caller runs update_inventory_count(b, a).
UpdateCountAt(b, a) ==
  LET r == update_inventory_count(counts, b, a) IN
  /\ counts' = r.counts
  /\ error' = r.error
  /\ UNCHANGED <<products, bins>>
  /\ UNCHANGED raceVars

UpdateCount == \E b \in BinArgs, a \in ActualValues : UpdateCountAt(b, a)

Next ==
  \/ AddProduct
  \/ AddBin
  \/ Assign
  \/ CreateCount
  \/ UpdateCount

Spec == Init /\ [][Next]_vars

\* Sessions in which every assign_product_to_bin call is given None, "" or the
\* id of an existing bin (what the selectbox of render_products_tab offers).
AssignToExisting ==
  \E p \in ProductArgs, b \in Ids(bins) \cup {None, EmptyStr} : AssignAt(p, b)

NextExisting ==
  \/ AddProduct
  \/ AddBin
  \/ AssignToExisting
  \/ CreateCount
  \/ UpdateCount

SpecExisting == Init /\ [][NextExisting]_vars

\* ------------------------------------------------- runs without mutual exclusion
\* Two threads run assign_product_to_bin on the same session state, one
\* statement at a time; a read-modify-write of currentCount (lines 65 and 71)
\* is a read into a thread-local value followed by a write.

\* The exception list.remove raises when the entry is gone.
ValueErrorRaised == "ValueError: list.remove(x): x not in list"

\* A session two add_product and two add_bin calls leave, and the one a
\* following assign of the first product to the first bin leaves.
RaceStart(assigned) ==
  LET ps == add_product(add_product(<<>>))
      bs == add_bin(add_bin(<<>>))
  IN  IF assigned
      THEN assign_product_to_bin(ps, bs, ps[1].id, bs[1].id)
      ELSE [products |-> ps, bins |-> bs, error |-> NoError]

InitRace ==
  /\ \E assigned \in BOOLEAN :
       /\ products = RaceStart(assigned).products
       /\ bins = RaceStart(assigned).bins
  /\ counts = <<>>
  /\ error = NoError
  /\ threads = [t \in Threads |-> Idle(0)]
  /\ overlapped = FALSE

\* Thread t moves to line pc.
GoTo(t, pc) == threads' = [threads EXCEPT ![t].pc = pc]

\* Lines 55-60: thread t enters assign_product_to_bin(p, b), finds the product
\* and reads its currentBin.
RaceCall(t) ==
  \E p \in Ids(products), b \in Ids(bins) \cup {None, UnknownId} :
    /\ threads[t].pc = "idle"
    /\ threads[t].calls < MaxCallsPerThread
    /\ threads' = [threads EXCEPT ![t] =
                     [pc |-> "l61", product_id |-> p, new_bin_id |-> b,
                      old_bin_id |-> products[Find(products, p)].currentBin,
                      tmp |-> 0, calls |-> @.calls + 1]]
    /\ overlapped' = (overlapped \/ \E u \in Threads \ {t} : threads[u].pc # "idle")
    /\ UNCHANGED <<products, bins, counts, error>>

\* Lines 61-63: the tests that guard the removal from the old bin.
RaceTestOld(t) ==
  /\ threads[t].pc = "l61"
  /\ LET old == threads[t].old_bin_id
         ob == Find(bins, old)
     IN  IF /\ Truthy(old) /\ old # threads[t].new_bin_id
            /\ ob # 0 /\ Contains(bins[ob].products, threads[t].product_id)
         THEN GoTo(t, "l64")
         ELSE GoTo(t, "l67")
  /\ UNCHANGED <<products, bins, counts, error, overlapped>>

\* Line 64: old_bin["products"].remove(product_id); raises when another
\* thread took the entry out since the test of line 63.
RaceRemove(t) ==
  /\ threads[t].pc = "l64"
  /\ LET ob == Find(bins, threads[t].old_bin_id) IN
       IF Contains(bins[ob].products, threads[t].product_id)
       THEN /\ bins' = [bins EXCEPT ![ob].products = ListRemove(@, threads[t].product_id)]
            /\ GoTo(t, "l65")
            /\ UNCHANGED error
       ELSE /\ threads' = [threads EXCEPT ![t] = Idle(@.calls)]
            /\ error' = ValueErrorRaised
            /\ UNCHANGED bins
  /\ UNCHANGED <<products, counts, overlapped>>

\* Line 65, right-hand side: old_bin["currentCount"] is read.
RaceReadDec(t) ==
  /\ threads[t].pc = "l65"
  /\ threads' = [threads EXCEPT ![t].pc = "l65w",
                                ![t].tmp = bins[Find(bins, threads[t].old_bin_id)].currentCount]
  /\ UNCHANGED <<products, bins, counts, error, overlapped>>

\* Line 65, assignment: max(0, value read - 1) is stored.
RaceWriteDec(t) ==
  /\ threads[t].pc = "l65w"
  /\ bins' = [bins EXCEPT ![Find(bins, threads[t].old_bin_id)].currentCount =
                Max(0, threads[t].tmp - 1)]
  /\ GoTo(t, "l67")
  /\ UNCHANGED <<products, counts, error, overlapped>>

\* Lines 67-69: the tests that guard the append to the new bin.
RaceTestNew(t) ==
  /\ threads[t].pc = "l67"
  /\ IF Truthy(threads[t].new_bin_id) /\ Find(bins, threads[t].new_bin_id) # 0
     THEN GoTo(t, "l70")
     ELSE GoTo(t, "l72")
  /\ UNCHANGED <<products, bins, counts, error, overlapped>>

\* Line 70: new_bin["products"].append(product_id).
RaceAppend(t) ==
  /\ threads[t].pc = "l70"
  /\ bins' = [bins EXCEPT ![Find(bins, threads[t].new_bin_id)].products =
                Append(@, threads[t].product_id)]
  /\ GoTo(t, "l71")
  /\ UNCHANGED <<products, counts, error, overlapped>>

\* Line 71, read: new_bin["currentCount"] is read.
RaceReadInc(t) ==
  /\ threads[t].pc = "l71"
  /\ threads' = [threads EXCEPT ![t].pc = "l71w",
                                ![t].tmp = bins[Find(bins, threads[t].new_bin_id)].currentCount]
  /\ UNCHANGED <<products, bins, counts, error, overlapped>>

\* Variant of RaceWriteInc: the value read is stored back as it is.
RaceWriteInc_NoIncrement(t) ==
  /\ threads[t].pc = "l71w"
  /\ bins' = [bins EXCEPT ![Find(bins, threads[t].new_bin_id)].currentCount =
                threads[t].tmp]
  /\ GoTo(t, "l72")
  /\ UNCHANGED <<products, counts, error, overlapped>>

\* Line 71, write: value read + 1 is stored.
RaceWriteInc(t) ==
  /\ threads[t].pc = "l71w"
  /\ bins' = [bins EXCEPT ![Find(bins, threads[t].new_bin_id)].currentCount =
                threads[t].tmp + 1]
  /\ GoTo(t, "l72")
  /\ UNCHANGED <<products, counts, error, overlapped>>

\* Lines 72-74: the product's currentBin is set and the call returns.
RaceSetCurrentBin(t) ==
  /\ threads[t].pc = "l72"
  /\ products' = [products EXCEPT ![Find(products, threads[t].product_id)].currentBin =
                    NewCurrentBin(threads[t].new_bin_id)]
  /\ threads' = [threads EXCEPT ![t] = Idle(@.calls)]
  /\ UNCHANGED <<bins, counts, error, overlapped>>

NextRace ==
  \/ \E t \in Threads : RaceCall(t)
  \/ \E t \in Threads : RaceTestOld(t)
  \/ \E t \in Threads : RaceRemove(t)
  \/ \E t \in Threads : RaceReadDec(t)
  \/ \E t \in Threads : RaceWriteDec(t)
  \/ \E t \in Threads : RaceTestNew(t)
  \/ \E t \in Threads : RaceAppend(t)
  \/ \E t \in Threads : RaceReadInc(t)
  \/ \E t \in Threads : RaceWriteInc(t)
  \/ \E t \in Threads : RaceSetCurrentBin(t)

SpecRace == InitRace /\ [][NextRace]_vars

\* ---------------------------------------------------------------- properties
\* Position of the bin with id b in bins (ids of bins are distinct).
BinAt(b) == CHOOSE i \in DOMAIN bins : bins[i].id = b

\* The bin ids and product ids that exist.
BinIds == {bins[i].id : i \in DOMAIN bins}
ProductIds == {products[i].id : i \in DOMAIN products}

\* Some count of bin b is pending.
HasPending(b) == \E i \in DOMAIN counts : counts[i].binId = b /\ counts[i].status = "pending"

\* C1: in every reachable state every bin's currentCount equals the length
\* of its products list.
CountMatchesLen ==
  \A i \in DOMAIN bins : bins[i].currentCount = Len(bins[i].products)

\* C1 witness: a product sits once in one bin (it was assigned to it twice
\* and one copy was removed) and twice in another.
CountMatchesLenWitness ==
  /\ \E i, j \in DOMAIN bins, p \in ProductIds :
       /\ i # j
       /\ bins[i].products = <<p>> /\ bins[i].currentCount = 1
       /\ bins[j].products = <<p, p>> /\ bins[j].currentCount = 2

\* C2: for every product whose currentBin is not None, that bin exists and
\* its products list holds the product's id exactly once.
CurrentBinHoldsProductOnce ==
  \A i \in DOMAIN products :
    products[i].currentBin # None =>
      /\ products[i].currentBin \in BinIds
      /\ Occurrences(bins[BinAt(products[i].currentBin)].products, products[i].id) = 1

\* C3: a product id is in the products list of at most one bin, and a bin
\* that lists it is the product's currentBin.
ProductInAtMostOneBin ==
  \A i \in DOMAIN products :
    /\ \A j, k \in DOMAIN bins :
         (Contains(bins[j].products, products[i].id)
            /\ Contains(bins[k].products, products[i].id)) => j = k
    /\ \A j \in DOMAIN bins :
         Contains(bins[j].products, products[i].id) => bins[j].id = products[i].currentBin

\* C4: from every reachable state, for an existing product p and an existing
\* bin b, assign(p, b) run twice leaves the state that running it once leaves.
AssignIdempotent ==
  \A p \in ProductIds, b \in BinIds :
    LET r1 == assign_product_to_bin(products, bins, p, b)
        r2 == assign_product_to_bin(r1.products, r1.bins, p, b)
    IN  r2.products = r1.products /\ r2.bins = r1.bins

\* C5: from every reachable state, for an existing product p and existing
\* bins b1, b2, assign(p, b1); assign(p, b2); assign(p, None) ends with
\* p.currentBin = None and p in the products list of neither b1 nor b2.
AssignRoundTrip ==
  \A p \in ProductIds, b1 \in BinIds, b2 \in BinIds :
    LET r1 == assign_product_to_bin(products, bins, p, b1)
        r2 == assign_product_to_bin(r1.products, r1.bins, p, b2)
        r3 == assign_product_to_bin(r2.products, r2.bins, p, None)
    IN  /\ \A i \in DOMAIN r3.products :
             r3.products[i].id = p => r3.products[i].currentBin = None
        /\ \A j \in DOMAIN r3.bins :
             r3.bins[j].id \in {b1, b2} => ~Contains(r3.bins[j].products, p)

\* C6: create_inventory_count(b) on an existing bin b appends exactly one
\* record, with binId = b, expectedCount = b's currentCount at the call,
\* actualCount = 0 and status pending, whatever counts of b are pending.
CreateCountAppendsSnapshot ==
  [][\A b \in BinIds, now \in Times :
       CreateCountAt(b, now) =>
         /\ Len(counts') = Len(counts) + 1
         /\ SubSeq(counts', 1, Len(counts)) = counts
         /\ counts'[Len(counts')].binId = b
         /\ counts'[Len(counts')].expectedCount = bins[BinAt(b)].currentCount
         /\ counts'[Len(counts')].actualCount = 0
         /\ counts'[Len(counts')].status = "pending"]_vars

\* C6 witness: a count was created for a bin that holds one product and
\* already had a pending count; the new record expects 1.
CreateCountAppendsSnapshotWitness ==
  /\ error = NoError
  /\ Len(counts) = 2
  /\ counts[1].binId = counts[2].binId
  /\ counts[1].status = "pending" /\ counts[2].status = "pending"
  /\ counts[2].expectedCount = 1 /\ counts[2].actualCount = 0
  /\ bins[BinAt(counts[2].binId)].currentCount = 1

\* C7: update_inventory_count(b, a) with a pending count of b stores a as the
\* actualCount of a pending count of b and makes it completed when a equals
\* the expectedCount stored in that record, discrepancy otherwise, for every
\* a (negative ones too).
UpdateCountResolves ==
  [][\A b \in BinIds, a \in ActualValues :
       (HasPending(b) /\ UpdateCountAt(b, a)) =>
         \E k \in DOMAIN counts :
           /\ counts[k].binId = b /\ counts[k].status = "pending"
           /\ counts'[k].actualCount = a
           /\ counts'[k].status =
                (IF a = counts[k].expectedCount THEN "completed" ELSE "discrepancy")]_vars

\* C7 witness: a count is completed whose expectedCount differs from the
\* currentCount its bin has now, and another one was resolved to a
\* discrepancy with a negative actual count.
UpdateCountResolvesWitness ==
  /\ error = NoError
  /\ Len(counts) = 2
  /\ counts[1].status = "discrepancy" /\ counts[1].actualCount < 0
  /\ counts[2].status = "completed"
  /\ counts[2].actualCount = counts[2].expectedCount
  /\ bins[BinAt(counts[2].binId)].currentCount # counts[2].expectedCount

\* C8: a count that is completed or discrepancy keeps its status and its
\* actualCount in every later step; the only status changes are pending to
\* completed and pending to discrepancy.
TerminalStatusFinal ==
  [][\A i \in DOMAIN counts :
       /\ i \in DOMAIN counts'
       /\ counts[i].status # "pending" =>
            /\ counts'[i].status = counts[i].status
            /\ counts'[i].actualCount = counts[i].actualCount
       /\ counts'[i].status # counts[i].status =>
            /\ counts[i].status = "pending"
            /\ counts'[i].status \in {"completed", "discrepancy"}]_vars

\* C8 witness: update_inventory_count has resolved both counts of a bin, to
\* different actual counts: one of the two calls ran while the other record
\* was already resolved.
TerminalStatusFinalWitness ==
  /\ error = NoError
  /\ Len(counts) = 2
  /\ counts[1].binId = counts[2].binId
  /\ counts[1].status # "pending" /\ counts[2].status # "pending"
  /\ counts[1].actualCount # counts[2].actualCount

\* C9: update_inventory_count(b, a) when no count of b is pending reports
\* the no-pending-count error and changes no count, bin or product.
UpdateWithoutPendingFails ==
  [][\A b \in BinArgs, a \in ActualValues :
       (~HasPending(b) /\ UpdateCountAt(b, a)) =>
         /\ error' = NoPendingCount
         /\ UNCHANGED <<products, bins, counts>>]_vars

\* C9 witness: the error was just reported while one bin has only a resolved
\* count and the other bin has a pending one.
UpdateWithoutPendingFailsWitness ==
  /\ error = NoPendingCount
  /\ Len(counts) = 2
  /\ counts[1].binId # counts[2].binId
  /\ counts[1].status # "pending"
  /\ counts[2].status = "pending"

\* C10: assign_product_to_bin(p, b) with p the id of no product reports the
\* product-not-found error and changes no bin, product or count.
AssignUnknownProductFails ==
  [][\A p \in ProductArgs, b \in BinArgs \cup {None, EmptyStr} :
       (p \notin ProductIds /\ AssignAt(p, b)) =>
         /\ error' = ProductNotFound
         /\ UNCHANGED <<products, bins, counts>>]_vars

\* C10 witness: the error was just reported in a session that has products,
\* a bin holding a product, and a count.
AssignUnknownProductFailsWitness ==
  /\ error = ProductNotFound
  /\ products # <<>>
  /\ counts # <<>>
  /\ \E i \in DOMAIN bins : bins[i].currentCount > 0


\* C11: create_inventory_count(b) with b the id of no bin reports the
\* bin-not-found error, appends no count and changes no product, bin or count.
CreateCountUnknownBinFails ==
  [][\A b \in BinArgs, now \in Times :
       (b \notin BinIds /\ CreateCountAt(b, now)) =>
         /\ error' = BinNotFound
         /\ UNCHANGED <<products, bins, counts>>]_vars

\* C11 witness: the error was reported in a session that has a bin holding a
\* product and a pending count.
CreateCountUnknownBinFailsWitness ==
  /\ error = BinNotFound
  /\ \E i \in DOMAIN bins : bins[i].currentCount > 0
  /\ \E i \in DOMAIN counts : counts[i].status = "pending"

\* C12 (as claimed): a pending count that has a later count of the same bin
\* after it in the list stays pending in every step.
SupersededStaysPending ==
  [][\A i \in DOMAIN counts :
       (/\ counts[i].status = "pending"
        /\ \E j \in DOMAIN counts : j > i /\ counts[j].binId = counts[i].binId)
         => counts'[i].status = "pending"]_vars

\* C12 (amended): a pending count is left unchanged by every step taken while
\* a count of the same bin created after it is still pending.
SupersededWaitsForLater ==
  [][\A i \in DOMAIN counts :
       (/\ counts[i].status = "pending"
        /\ \E j \in DOMAIN counts :
             j > i /\ counts[j].binId = counts[i].binId /\ counts[j].status = "pending")
         => counts'[i] = counts[i]]_vars

\* C12 witness: of two counts created for one bin the later is resolved and
\* the earlier is still pending.
SupersededWaitsForLaterWitness ==
  /\ Len(counts) = 2
  /\ counts[1].binId = counts[2].binId
  /\ counts[1].status = "pending"
  /\ counts[2].status # "pending"

\* C13: update_inventory_count(b, a) with a pending count of b changes only
\* the last pending count of b in list order, and of that record only
\* actualCount and status.
UpdateChangesOnlyLastPending ==
  [][\A b \in BinIds, a \in ActualValues :
       (HasPending(b) /\ UpdateCountAt(b, a)) =>
         \E k \in DOMAIN counts :
           /\ counts[k].binId = b /\ counts[k].status = "pending"
           /\ \A j \in DOMAIN counts :
                (counts[j].binId = b /\ counts[j].status = "pending") => j <= k
           /\ DOMAIN counts' = DOMAIN counts
           /\ \A j \in DOMAIN counts : j # k => counts'[j] = counts[j]
           /\ counts'[k].status # "pending"
           /\ counts'[k].id = counts[k].id
           /\ counts'[k].binId = counts[k].binId
           /\ counts'[k].expectedCount = counts[k].expectedCount
           /\ counts'[k].timestamp = counts[k].timestamp]_vars

\* C13 witness: of two counts of one bin the later in the list is resolved
\* although the earlier, still pending, has the later timestamp.
UpdateChangesOnlyLastPendingWitness ==
  /\ Len(counts) = 2
  /\ counts[1].binId = counts[2].binId
  /\ counts[1].status = "pending"
  /\ counts[2].status # "pending"
  /\ counts[1].timestamp > counts[2].timestamp
  /\ error = NoError

\* Position of the product with id p in products (ids of products are distinct).
ProductAt(p) == CHOOSE i \in DOMAIN products : products[i].id = p

\* The positions of the bins of bs whose products list holds p.
BinsHolding(bs, p) == {j \in DOMAIN bs : \E n \in DOMAIN bs[j].products : bs[j].products[n] = p}

\* C14: for an existing product p and an id x of no bin, assign(p, x) takes p
\* out of its old bin (decrementing its currentCount), adds p to no bin and
\* sets p.currentBin = x; assign(p, b) to an existing bin b then adds p to b
\* and leaves p in exactly one bin.
AssignToMissingBinRecovers ==
  \A p \in ProductIds, b \in BinIds :
    LET x == UnknownId
        old == products[ProductAt(p)].currentBin
        r1 == assign_product_to_bin(products, bins, p, x)
        r2 == assign_product_to_bin(r1.products, r1.bins, p, b)
    IN  /\ r1.products[ProductAt(p)].currentBin = x
        /\ \A j \in DOMAIN bins :
             IF bins[j].id = old /\ j \in BinsHolding(bins, p)
             THEN /\ Occurrences(r1.bins[j].products, p) = Occurrences(bins[j].products, p) - 1
                  /\ r1.bins[j].currentCount = bins[j].currentCount - 1
             ELSE r1.bins[j] = bins[j]
        /\ r2.products[ProductAt(p)].currentBin = b
        /\ BinsHolding(r2.bins, p) = {BinAt(b)}

\* The case of C15: product p is in an existing bin, its currentBin, exactly
\* once, and b2 is another existing bin.
CanMove(p, b2) ==
  LET b1 == products[ProductAt(p)].currentBin IN
  /\ b1 \in BinIds
  /\ b2 \in BinIds
  /\ b1 # b2
  /\ Occurrences(bins[BinAt(b1)].products, p) = 1

CountStatusConsistent ==
  \A i \in DOMAIN counts :
    /\ counts[i].status \in {"pending", "completed", "discrepancy"}
    /\ counts[i].status = "pending" => counts[i].actualCount = 0
    /\ counts[i].status = "completed" => counts[i].actualCount = counts[i].expectedCount
    /\ counts[i].status = "discrepancy" => counts[i].actualCount # counts[i].expectedCount

\* C17 witness: a completed count with a positive actual count next to a
\* discrepancy count whose actual count is above the expected one.
CountStatusConsistentWitness ==
  \E i, j \in DOMAIN counts :
    /\ counts[i].status = "completed" /\ counts[i].actualCount > 0
    /\ counts[j].status = "discrepancy" /\ counts[j].actualCount > counts[j].expectedCount

\* C18: add_product, add_bin and assign_product_to_bin change no count (a
\* count keeps the expectedCount it was created with whatever is assigned to
\* its bin later); create_inventory_count and update_inventory_count change no
\* product and no bin.  Stated by contraposition: a step that changes a count
\* is no step of the first three, a step that changes a product or a bin is
\* no step of the last two.
HalvesIndependent ==
  [][/\ counts' # counts => ~(AddProduct \/ AddBin \/ Assign)
     /\ (products' # products \/ bins' # bins) => ~(CreateCount \/ UpdateCount)]_vars

\* C18 witness: a pending and a resolved count of a bin that were created
\* when it was empty, and the bin now holds a product.
HalvesIndependentWitness ==
  /\ Len(counts) = 2
  /\ counts[1].binId = counts[2].binId
  /\ counts[1].status # "pending" /\ counts[2].status = "pending"
  /\ counts[1].expectedCount = 0 /\ counts[2].expectedCount = 0
  /\ bins[BinAt(counts[1].binId)].currentCount > 0
  /\ \E i \in DOMAIN products : products[i].currentBin = counts[1].binId

\* C19: no bin ever has a negative currentCount, and whenever a step takes an
\* entry out of a bin's products list that bin's currentCount is at least 1
\* before the step and one less after it (the floor at 0 is not used).
FloorNeverUsed ==
  [][/\ \A i \in DOMAIN bins' : bins'[i].currentCount >= 0
     /\ \A i \in DOMAIN bins :
          Len(bins'[i].products) < Len(bins[i].products) =>
            /\ bins[i].currentCount >= 1
            /\ bins'[i].currentCount = bins[i].currentCount - 1]_vars

\* C19 witness: a product is listed once in its currentBin and once in
\* another bin, from which one of two entries was taken out.
FloorNeverUsedWitness ==
  \E i, j \in DOMAIN bins, k \in DOMAIN products :
    /\ i # j
    /\ products[k].currentBin = bins[j].id
    /\ bins[i].products = <<products[k].id>> /\ bins[i].currentCount = 1
    /\ bins[j].products = <<products[k].id>> /\ bins[j].currentCount = 1

\* C20: when every assign call is given None or the id of an existing bin,
\* every product's currentBin that is not None is the id of an existing bin
\* whose products list holds the product at least once.
CurrentBinListsProduct ==
  \A i \in DOMAIN products :
    products[i].currentBin # None =>
      /\ products[i].currentBin \in BinIds
      /\ Occurrences(bins[BinAt(products[i].currentBin)].products, products[i].id) >= 1

\* C20 witness: a product is listed twice in its currentBin and once more in
\* another bin.
CurrentBinListsProductWitness ==
  \E i \in DOMAIN products, j, k \in DOMAIN bins :
    /\ j # k
    /\ products[i].currentBin = bins[j].id
    /\ Occurrences(bins[j].products, products[i].id) = 2
    /\ Occurrences(bins[k].products, products[i].id) = 1

\* No thread is inside a call.
AllIdle == \A t \in Threads : threads[t].pc = "idle"

\* C16: without mutual exclusion two assign calls on one bin can end with
\* its currentCount different from the length of its products list (the
\* witness); when no call begins while another is under way, every bin has
\* currentCount equal to that length whenever no call is under way.
SerialRunsKeepCount ==
  (~overlapped /\ AllIdle) =>
    \A i \in DOMAIN bins : bins[i].currentCount = Len(bins[i].products)

\* C16 witness: two overlapping calls, one per thread, both with the same
\* bin as target, have returned without an exception; the bin lists both
\* products and its currentCount is 1.
SerialRunsKeepCountWitness ==
  /\ overlapped /\ AllIdle
  /\ error = NoError
  /\ \A t \in Threads : threads[t].calls = 1
  /\ \E i \in DOMAIN bins :
       /\ Len(bins[i].products) = 2
       /\ bins[i].currentCount = 1
       /\ \A k \in DOMAIN products : products[k].currentBin = bins[i].id

====
